---- MODULE Spec2Model ----
(***************************************************************************)
(* crunch: reads a log of Antithesis SDK records (one JSON value per       *)
(* line), groups the assertion records by id and writes one evaluated      *)
(* verdict per id.  Model of src/src/main.rs.                              *)
(*                                                                         *)
(* A line of the input is modelled by its JSON shape: what serde_json      *)
(* makes of it.  Strings of the program (ids, messages) and the opaque     *)
(* `details` payloads are small tokens.                                    *)
(***************************************************************************)
EXTENDS Naturals, Sequences, FiniteSets, TLC

\* ------------------------------------------------------------------ bounds
MaxLen == 3

\* ------------------------------------------------------------- Option<T>
None == [some |-> FALSE]
Some(x) == [some |-> TRUE, val |-> x]
is_some(o) == o.some
is_none(o) == ~o.some
\* Option::or
or(a, b) == IF a.some THEN a ELSE b
\* Option::map(|x| x.details)
map_details(o) == IF o.some THEN Some(o.val.details) ELSE None

\* --------------------------------------------------------- the input text
Ids == {"a", "b"}
AssertTypes == {"always", "sometimes", "reachability"}

\* The four variant names of SDKInput under rename_all = "snake_case".
VariantTags == {"antithesis_sdk", "antithesis_assert", "antithesis_setup", "send_event"}

\* The struct a variant's content must deserialize as.
VariantSchema(tag) ==
    CASE tag = "antithesis_sdk" -> "AntithesisSdk"
      [] tag = "antithesis_assert" -> "AntithesisAssert"
      [] tag = "antithesis_setup" -> "AntithesisSetup"
      [] tag = "send_event" -> "SendEvent"
      [] OTHER -> "none"

\* An antithesis_assert body; n is the position of the line in the file and
\* makes the payload and the presentation fields of every instance distinct.
AssertBody(id, ty, must, hit, cond, n) ==
    [schema |-> "AntithesisAssert",
     assert |-> [assert_type |-> ty, condition |-> cond,
                 display_type |-> <<"display_type", n>>,
                 hit |-> hit, must_hit |-> must, id |-> id,
                 message |-> <<"message", n>>,
                 location |-> <<"location", n>>,
                 details |-> <<"details", n>>]]

PlainBody(schema) == [schema |-> schema]

JsonObject(entries) == [text |-> "json", value |-> [type |-> "object", entries |-> entries]]
Entry(k, body) == [key |-> k, body |-> body]

EmptyLine == [text |-> "empty"]
\* At least one character, not JSON: garbage, or white space only.
GarbageLine == [text |-> "garbage"]
\* A JSON value that is no object: a number, a string, an array.
ScalarLine == [text |-> "json", value |-> [type |-> "scalar"]]

\* Line shapes that carry no assertion.
OtherShapes ==
    {"empty", "garbage", "scalar", "object0", "sdk", "setup", "send_event",
     "custom", "bad_assert", "two_keys", "sdk_plus_key"}

AssertShapes(ids, types, musts, hits, conds) ==
    [shape : {"assert"}, id : ids, assert_type : types,
     must_hit : musts, hit : hits, condition : conds]

\* Every kind of line, assertions of two ids with every hit and condition.
ClassifyShapes ==
    [shape : OtherShapes] \cup AssertShapes(Ids, {"always"}, {TRUE}, BOOLEAN, BOOLEAN)

\* One id, every assert_type and must_hit on every line: catalog lines, true
\* observations and false observations.
VerdictShapes ==
    AssertShapes({"a"}, AssertTypes, BOOLEAN, {FALSE}, {FALSE})
        \cup AssertShapes({"a"}, AssertTypes, BOOLEAN, {TRUE}, BOOLEAN)

\* Two ids: catalog lines of every assert_type and must_hit, and observations.
SlotShapes ==
    AssertShapes(Ids, AssertTypes, BOOLEAN, {FALSE}, {FALSE})
        \cup AssertShapes(Ids, {"always"}, {TRUE}, {TRUE}, BOOLEAN)

\* The line of shape p at position n of the file.
LineOf(p, n) ==
    CASE p.shape = "empty" -> EmptyLine
      [] p.shape = "garbage" -> GarbageLine
      [] p.shape = "scalar" -> ScalarLine
      [] p.shape = "object0" -> JsonObject(<<>>)
      [] p.shape = "sdk" -> JsonObject(<<Entry("antithesis_sdk", PlainBody("AntithesisSdk"))>>)
      [] p.shape = "setup" -> JsonObject(<<Entry("antithesis_setup", PlainBody("AntithesisSetup"))>>)
      [] p.shape = "send_event" -> JsonObject(<<Entry("send_event", PlainBody("SendEvent"))>>)
      [] p.shape = "custom" -> JsonObject(<<Entry("custom_event", PlainBody("other"))>>)
      [] p.shape = "bad_assert" -> JsonObject(<<Entry("antithesis_assert", PlainBody("other"))>>)
      [] p.shape = "two_keys" ->
            JsonObject(<<Entry("custom_event", PlainBody("other")), Entry("other_event", PlainBody("other"))>>)
      [] p.shape = "sdk_plus_key" ->
            JsonObject(<<Entry("antithesis_sdk", PlainBody("AntithesisSdk")), Entry("custom_event", PlainBody("other"))>>)
      [] p.shape = "assert" ->
            JsonObject(<<Entry("antithesis_assert",
                AssertBody(p.id, p.assert_type, p.must_hit, p.hit, p.condition, n))>>)

SeqsUpTo(S, n) == UNION {[1..k -> S] : k \in 0..n}

\* The files of at most MaxLen lines whose lines have the given shapes.
Inputs(shapes) == {[i \in DOMAIN s |-> LineOf(s[i], i)] : s \in SeqsUpTo(shapes, MaxLen)}

\* ------------------------------------------------------------ Result<T>
Ok(x) == [ok |-> TRUE, val |-> x]
Err(e) == [ok |-> FALSE, err |-> e]

\* ------------------------------------------------------------ parse_lines
\* Mutant: the length counts the line's terminator, so no line has length 0.
line_len_with_newline(line) == IF line.text = "empty" THEN 1 ELSE 2

\* line.len(): only zero or not matters.
line_len(line) == IF line.text = "empty" THEN 0 ELSE 1

\* serde_json::from_str::<SDKInput>: an externally tagged enum is a map of
\* exactly one key, the key a variant name, the content that variant's struct.
from_str_SDKInput(line) ==
    IF line.text = "json" /\ line.value.type = "object"
       /\ Len(line.value.entries) = 1
       /\ line.value.entries[1].key \in VariantTags
       /\ line.value.entries[1].body.schema = VariantSchema(line.value.entries[1].key)
    THEN LET e == line.value.entries[1] IN
         CASE e.key = "antithesis_sdk" -> Ok([variant |-> "AntithesisSdk"])
           [] e.key = "antithesis_setup" -> Ok([variant |-> "AntithesisSetup"])
           [] e.key = "antithesis_assert" -> Ok([variant |-> "AntithesisAssert", x |-> e.body.assert])
           [] e.key = "send_event" ->
                Ok([variant |-> "SendEvent", event_name |-> "event_name", details |-> e.body])
    ELSE Err("no variant")

\* serde_json::from_str::<Value>
from_str_Value(line) ==
    IF line.text = "json" THEN Ok(line.value) ELSE Err("not JSON")

\* Mutant: only a map of exactly one entry is an event.
fallback_event_single_key(line) ==
    LET temp == from_str_Value(line) IN
    IF ~temp.ok THEN Err("not JSON")
    ELSE IF temp.val.type = "object"
         THEN IF Len(temp.val.entries) = 1
              THEN Ok([variant |-> "SendEvent",
                       event_name |-> temp.val.entries[1].key,
                       details |-> temp.val.entries[1].body])
              ELSE Err("no details found here")
         ELSE Err("it broke - not an Object() unable to parse JSON")

\* The Err arm of the match: the line as a generic event, named by the first
\* entry of the map.
fallback_event(line) ==
    LET temp == from_str_Value(line) IN
    IF ~temp.ok THEN Err("not JSON")
    ELSE IF temp.val.type = "object"
         THEN IF Len(temp.val.entries) >= 1
              THEN Ok([variant |-> "SendEvent",
                       event_name |-> temp.val.entries[1].key,
                       details |-> temp.val.entries[1].body])
              ELSE Err("no details found here")
         ELSE Err("it broke - not an Object() unable to parse JSON")

parse_line(line) ==
    LET first == from_str_SDKInput(line) IN
    IF first.ok THEN first ELSE fallback_event(line)

RECURSIVE parse_from(_, _, _)
parse_from(lines, i, result) ==
    IF i > Len(lines) THEN Ok(result)
    ELSE IF line_len(lines[i]) < 1 THEN parse_from(lines, i + 1, result)
    ELSE LET parsed_line == parse_line(lines[i]) IN
         IF parsed_line.ok
         THEN parse_from(lines, i + 1, Append(result, parsed_line.val))
         ELSE parsed_line

parse_lines(lines) == parse_from(lines, 1, <<>>)

\* ---------------------------------------------------------- group_asserts
EmptyMap == [k \in {} |-> <<>>]

\* Mutant: the map is keyed by display_type instead of id.
push_entry_by_display_type(result, x) ==
    IF x.display_type \in DOMAIN result
    THEN [result EXCEPT ![x.display_type] = Append(@, x)]
    ELSE [k \in DOMAIN result \cup {x.display_type} |->
            IF k = x.display_type THEN <<x>> ELSE result[k]]

\* result.entry(x.id.clone()).or_insert(Vec::new()).push(x)
push_entry(result, x) ==
    IF x.id \in DOMAIN result
    THEN [result EXCEPT ![x.id] = Append(@, x)]
    ELSE [k \in DOMAIN result \cup {x.id} |-> IF k = x.id THEN <<x>> ELSE result[k]]

\* Mutant: a record that is no assertion empties the map.
RECURSIVE group_from_clearing(_, _, _)
group_from_clearing(inputs, i, result) ==
    IF i > Len(inputs) THEN result
    ELSE IF inputs[i].variant = "AntithesisAssert"
         THEN group_from_clearing(inputs, i + 1, push_entry(result, inputs[i].x))
         ELSE group_from_clearing(inputs, i + 1, EmptyMap)

RECURSIVE group_from(_, _, _)
group_from(inputs, i, result) ==
    IF i > Len(inputs) THEN result
    ELSE IF inputs[i].variant = "AntithesisAssert"
         THEN group_from(inputs, i + 1, push_entry(result, inputs[i].x))
         ELSE group_from(inputs, i + 1, result)

group_asserts(inputs) == group_from(inputs, 1, EmptyMap)

\* ------------------------------------------------ EvaluatedAssertion::new
NoEntries == [catalog_entry |-> None, condition_true_entry |-> None, condition_false_entry |-> None]

\* Mutant: a slot keeps its first entry.
slot_entry_keep_first(slots, entry) ==
    IF entry.hit
    THEN IF entry.condition
         THEN IF slots.condition_true_entry.some THEN slots
              ELSE [slots EXCEPT !.condition_true_entry = Some(entry)]
         ELSE IF slots.condition_false_entry.some THEN slots
              ELSE [slots EXCEPT !.condition_false_entry = Some(entry)]
    ELSE IF slots.catalog_entry.some THEN slots
         ELSE [slots EXCEPT !.catalog_entry = Some(entry)]

\* Mutant: a catalog entry starts the id afresh, dropping earlier observations.
slot_entry_catalog_resets(slots, entry) ==
    IF entry.hit
    THEN IF entry.condition
         THEN [slots EXCEPT !.condition_true_entry = Some(entry)]
         ELSE [slots EXCEPT !.condition_false_entry = Some(entry)]
    ELSE [NoEntries EXCEPT !.catalog_entry = Some(entry)]

\* One turn of the loop over assert_list.
slot_entry(slots, entry) ==
    IF entry.hit
    THEN IF entry.condition
         THEN [slots EXCEPT !.condition_true_entry = Some(entry)]
         ELSE [slots EXCEPT !.condition_false_entry = Some(entry)]
    ELSE [slots EXCEPT !.catalog_entry = Some(entry)]

RECURSIVE slots_from(_, _, _)
slots_from(assert_list, i, slots) ==
    IF i > Len(assert_list) THEN slots
    ELSE slots_from(assert_list, i + 1, slot_entry(slots, assert_list[i]))

entry_slots(assert_list) == slots_from(assert_list, 1, NoEntries)

\* Mutant: must_hit is not looked at.
always_passed_any_hit(must_hit, condition_true_entry, condition_false_entry) ==
    is_none(condition_false_entry)

always_passed(must_hit, condition_true_entry, condition_false_entry) ==
    IF must_hit
    THEN is_some(condition_true_entry) /\ is_none(condition_false_entry)
    ELSE is_none(condition_false_entry)

\* Mutant: a false observation fails a Sometimes.
sometimes_passed_no_false(condition_true_entry, condition_false_entry) ==
    is_some(condition_true_entry) /\ is_none(condition_false_entry)

sometimes_passed(condition_true_entry, condition_false_entry) ==
    is_some(condition_true_entry)

\* Mutant: only a true observation counts as reached.
reachability_passed_true_only(must_hit, condition_true_entry, condition_false_entry) ==
    LET hit == is_some(condition_true_entry) IN
    IF must_hit THEN hit ELSE ~hit

reachability_passed(must_hit, condition_true_entry, condition_false_entry) ==
    LET hit == is_some(condition_true_entry) \/ is_some(condition_false_entry) IN
    IF must_hit THEN hit ELSE ~hit

\* The match on input_entry.assert_type: passed and the two details.
verdict(input_entry, t, f) ==
    CASE input_entry.assert_type = "always" ->
            [passed |-> always_passed(input_entry.must_hit, t, f),
             example_details |-> map_details(t),
             counter_details |-> map_details(f)]
      [] input_entry.assert_type = "sometimes" ->
            [passed |-> sometimes_passed(t, f),
             example_details |-> map_details(t),
             counter_details |-> map_details(f)]
      [] input_entry.assert_type = "reachability" ->
            IF input_entry.must_hit
            THEN [passed |-> reachability_passed(TRUE, t, f),
                  example_details |-> map_details(or(t, f)),
                  counter_details |-> None]
            ELSE [passed |-> reachability_passed(FALSE, t, f),
                  example_details |-> None,
                  counter_details |-> map_details(or(t, f))]

\* catalog_entry.unwrap() is the caller's guard: new() is defined when the
\* list has a catalog entry and panics otherwise.
has_catalog_entry(assert_list) == is_some(entry_slots(assert_list).catalog_entry)

EvaluatedAssertion_new(assert_list) ==
    LET slots == entry_slots(assert_list)
        input_entry == slots.catalog_entry.val
        v == verdict(input_entry, slots.condition_true_entry, slots.condition_false_entry)
    IN  [display_type |-> input_entry.display_type,
         id |-> input_entry.id,
         message |-> input_entry.message,
         location |-> input_entry.location,
         example_details |-> v.example_details,
         counter_details |-> v.counter_details,
         passed |-> v.passed]

\* Mutant: a list without a catalog entry is reduced from its first entry.
new_or_first(assert_list) ==
    IF has_catalog_entry(assert_list)
    THEN Ok(EvaluatedAssertion_new(assert_list))
    ELSE Ok([display_type |-> assert_list[1].display_type,
             id |-> assert_list[1].id,
             message |-> assert_list[1].message,
             location |-> assert_list[1].location,
             example_details |-> None,
             counter_details |-> None,
             passed |-> FALSE])

\* new() returns an EvaluatedAssertion or panics in catalog_entry.unwrap().
new_or_panic(assert_list) ==
    IF has_catalog_entry(assert_list)
    THEN Ok(EvaluatedAssertion_new(assert_list))
    ELSE Err("called Option::unwrap() on a None value")

\* ------------------------------------------------------------------- main
VARIABLES
    contents,            \* the lines of the input file, contents.split("\n")
    pc,                  \* where main is: parse, group, eval, done, error, panic
    parsed,              \* Vec<SDKInput>
    grouped_assertions,  \* HashMap<String, Vec<AntithesisAssert>>
    remaining,           \* keys into_values() has not yielded yet
    evaled_assertions,   \* Vec<EvaluatedAssertion>
    file                 \* the output file: None until created, then its records

vars == <<contents, pc, parsed, grouped_assertions, remaining, evaled_assertions, file>>

Start(inputs) ==
    /\ contents \in inputs
    /\ pc = "parse"
    /\ parsed = <<>>
    /\ grouped_assertions = EmptyMap
    /\ remaining = {}
    /\ evaled_assertions = <<>>
    /\ file = None

\* let parsed = parse_lines(lines.collect())?;
ParseLines ==
    /\ pc = "parse"
    /\ LET r == parse_lines(contents) IN
       IF r.ok
       THEN parsed' = r.val /\ pc' = "group"
       ELSE parsed' = parsed /\ pc' = "error"
    /\ UNCHANGED <<contents, grouped_assertions, remaining, evaled_assertions, file>>

\* let grouped_assertions = group_asserts(parsed);
GroupAsserts ==
    /\ pc = "group"
    /\ grouped_assertions' = group_asserts(parsed)
    /\ remaining' = DOMAIN grouped_assertions'
    /\ pc' = "eval"
    /\ UNCHANGED <<contents, parsed, evaled_assertions, file>>

\* One item of grouped_assertions.into_values().map(EvaluatedAssertion::new):
\* a HashMap yields its values in an arbitrary order.
Evaluate ==
    /\ pc = "eval"
    /\ \E id \in remaining :
         /\ remaining' = remaining \ {id}
         /\ IF new_or_panic(grouped_assertions[id]).ok
            THEN /\ evaled_assertions' =
                       Append(evaled_assertions, new_or_panic(grouped_assertions[id]).val)
                 /\ pc' = pc
            ELSE /\ evaled_assertions' = evaled_assertions
                 /\ pc' = "panic"
    /\ UNCHANGED <<contents, parsed, grouped_assertions, file>>

\* collect() is complete: create the file and write every record.
WriteOutput ==
    /\ pc = "eval"
    /\ remaining = {}
    /\ file' = Some(evaled_assertions)
    /\ pc' = "done"
    /\ UNCHANGED <<contents, parsed, grouped_assertions, remaining, evaled_assertions>>

Next == ParseLines \/ GroupAsserts \/ Evaluate \/ WriteOutput

Init == Start(Inputs(ClassifyShapes))
InitVerdict == Start(Inputs(VerdictShapes))
InitSlots == Start(Inputs(SlotShapes))

Spec == Init /\ [][Next]_vars
SpecVerdict == InitVerdict /\ [][Next]_vars
SpecSlots == InitSlots /\ [][Next]_vars

\* main as a function of the lines of the input file: how the run ends and,
\* when it ends well, the records it writes (a set: the HashMap fixes no order).
run(lines) ==
    LET r == parse_lines(lines) IN
    IF ~r.ok THEN [status |-> "error", records |-> {}]
    ELSE LET g == group_asserts(r.val) IN
         IF \E id \in DOMAIN g : ~new_or_panic(g[id]).ok
         THEN [status |-> "panic", records |-> {}]
         ELSE [status |-> "done", records |-> {new_or_panic(g[id]).val : id \in DOMAIN g}]

\* =================================================================== claims
\* The input as the specification describes it: the classified records of
\* `contents`, and per id the lines that are its declarations and observations.

IsObject(line) == line.text = "json" /\ line.value.type = "object"

\* The line decodes against the tagged-variant schema.
IsTagged(line) ==
    /\ IsObject(line)
    /\ Len(line.value.entries) = 1
    /\ \E tag \in VariantTags :
         /\ line.value.entries[1].key = tag
         /\ line.value.entries[1].body.schema = VariantSchema(tag)

IsBlank(line) == line.text = "empty"

IsAssertion(line) == IsTagged(line) /\ line.value.entries[1].key = "antithesis_assert"

\* Lines that neither decode against the schema nor are a mapping with an entry.
IsParseFailure(line) ==
    /\ ~IsBlank(line)
    /\ ~IsTagged(line)
    /\ ~(IsObject(line) /\ Len(line.value.entries) >= 1)

\* SdkDescriptor, SetupStatus or NamedEvent.
IsIgnored(line) == ~IsBlank(line) /\ ~IsAssertion(line) /\ ~IsParseFailure(line)

AllDecode == \A i \in DOMAIN contents : ~IsParseFailure(contents[i])

Instance(i) == contents[i].value.entries[1].body.assert

InstancesOf(id) == {i \in DOMAIN contents : IsAssertion(contents[i]) /\ Instance(i).id = id}

InputIds == {Instance(i).id : i \in {j \in DOMAIN contents : IsAssertion(contents[j])}}

Declarations(id) == {i \in InstancesOf(id) : ~Instance(i).hit}
TrueObservations(id) == {i \in InstancesOf(id) : Instance(i).hit /\ Instance(i).condition}
FalseObservations(id) == {i \in InstancesOf(id) : Instance(i).hit /\ ~Instance(i).condition}

AllDeclared == \A id \in InputIds : Declarations(id) # {}

Last(S) == CHOOSE i \in S : \A j \in S : j <= i
First(S) == CHOOSE i \in S : \A j \in S : i <= j

\* The details of the last line of S, null when S is empty.
LastDetails(S) == IF S = {} THEN None ELSE Some(Instance(Last(S)).details)

\* The declaration of an id: its last instance with hit == false.
Declaration(id) == Instance(Last(Declarations(id)))

Done == pc = "done"
Output == file.val
OutputIds == {Output[k].id : k \in DOMAIN Output}

\* C1: when every line decodes and every id has a declaration the run does not
\* fail, and its output has exactly one record per id of the input: the ids of
\* the output are the ids of the input and no id is written twice.
C1_OnePerId ==
    /\ (AllDecode /\ AllDeclared) => pc \notin {"error", "panic"}
    /\ (Done /\ AllDecode /\ AllDeclared) =>
          /\ OutputIds = InputIds
          /\ Len(Output) = Cardinality(InputIds)
          /\ \A k, l \in DOMAIN Output : Output[k].id = Output[l].id => k = l

C1_Witness ==
    /\ Done
    /\ Cardinality(InputIds) = 2
    /\ \E id \in InputIds : Cardinality(InstancesOf(id)) = 2
    /\ Len(Output) = 2

\* C2: an id declared Always passes exactly when no false observation of it
\* occurs and, under must_hit, a true observation occurs; example_details and
\* counter_details are the details of the retained true and false witness.
C2_Always ==
    Done => \A k \in DOMAIN Output :
        LET id == Output[k].id IN
        Declaration(id).assert_type = "always" =>
            /\ Output[k].passed =
                  (/\ FalseObservations(id) = {}
                   /\ (Declaration(id).must_hit => TrueObservations(id) # {}))
            /\ Output[k].example_details = LastDetails(TrueObservations(id))
            /\ Output[k].counter_details = LastDetails(FalseObservations(id))

C2_Witness ==
    /\ Done
    /\ \E k \in DOMAIN Output :
         LET id == Output[k].id IN
         /\ Declaration(id).assert_type = "always"
         /\ Declaration(id).must_hit
         /\ TrueObservations(id) # {}
         /\ FalseObservations(id) # {}
         /\ ~Output[k].passed
         /\ Output[k].example_details # None
         /\ Output[k].counter_details # None

\* C3: an id declared Sometimes passes exactly when a true observation of it
\* occurs, whatever must_hit is and whatever false observations occur; a false
\* observation only fills counter_details.
C3_Sometimes ==
    Done => \A k \in DOMAIN Output :
        LET id == Output[k].id IN
        Declaration(id).assert_type = "sometimes" =>
            /\ Output[k].passed = (TrueObservations(id) # {})
            /\ Output[k].example_details = LastDetails(TrueObservations(id))
            /\ Output[k].counter_details = LastDetails(FalseObservations(id))

C3_Witness ==
    /\ Done
    /\ \E k \in DOMAIN Output :
         LET id == Output[k].id IN
         /\ Declaration(id).assert_type = "sometimes"
         /\ TrueObservations(id) # {}
         /\ FalseObservations(id) # {}
         /\ First(FalseObservations(id)) < First(TrueObservations(id))
         /\ Output[k].passed

\* C4: an id declared Reachability is reached when any observation of it
\* occurs.  Under must_hit it passes exactly when reached, example_details is
\* the true witness's details, else the false witness's, else null, and
\* counter_details is null; without must_hit it passes exactly when not
\* reached and the two details fields change places.
C4_Reachability ==
    Done => \A k \in DOMAIN Output :
        LET id == Output[k].id
            reached == TrueObservations(id) # {} \/ FalseObservations(id) # {}
            preferred == IF TrueObservations(id) # {}
                         THEN LastDetails(TrueObservations(id))
                         ELSE LastDetails(FalseObservations(id))
        IN  Declaration(id).assert_type = "reachability" =>
               IF Declaration(id).must_hit
               THEN /\ Output[k].passed = reached
                    /\ Output[k].example_details = preferred
                    /\ Output[k].counter_details = None
               ELSE /\ Output[k].passed = ~reached
                    /\ Output[k].example_details = None
                    /\ Output[k].counter_details = preferred

C4_Witness ==
    /\ Done
    /\ \E k \in DOMAIN Output :
         LET id == Output[k].id IN
         /\ Declaration(id).assert_type = "reachability"
         /\ Declaration(id).must_hit
         /\ TrueObservations(id) = {}
         /\ FalseObservations(id) # {}
         /\ Output[k].passed
         /\ Output[k].example_details # None

\* C5: when some id of the input has no instance with hit == false the run
\* never finishes and never creates the output: nothing is written for any
\* id, and while groups are being reduced an undeclared group is still ahead.
HasUndeclaredId == \E id \in InputIds : Declarations(id) = {}

C5_NoOutput ==
    HasUndeclaredId =>
        /\ file = None
        /\ pc \in {"parse", "group", "eval", "error", "panic"}
        /\ pc = "eval" => \E id \in remaining : Declarations(id) = {}

C5_Witness ==
    /\ pc = "panic"
    /\ HasUndeclaredId
    /\ Len(evaled_assertions) = 1
    /\ file = None

\* C6 as claimed: a record that does not decode against the schema is a named
\* event only when it is a mapping of exactly one key, so a file holding any
\* other such record (a mapping of two keys among them) is aborted unwritten.
ClaimedParseFailure(line) ==
    /\ ~IsBlank(line)
    /\ ~IsTagged(line)
    /\ ~(IsObject(line) /\ Len(line.value.entries) = 1)

NonBlank == SelectSeq(contents, LAMBDA line : ~IsBlank(line))

ClaimedPassed(decl, id) ==
    CASE decl.assert_type = "always" ->
            /\ FalseObservations(id) = {}
            /\ (decl.must_hit => TrueObservations(id) # {})
      [] decl.assert_type = "sometimes" -> TrueObservations(id) # {}
      [] decl.assert_type = "reachability" ->
            decl.must_hit = (TrueObservations(id) # {} \/ FalseObservations(id) # {})

C7_LastWriteWins ==
    \A k \in DOMAIN evaled_assertions :
        LET r == evaled_assertions[k]
            id == r.id
            decl == Declaration(id)
            preferred == IF TrueObservations(id) # {}
                         THEN LastDetails(TrueObservations(id))
                         ELSE LastDetails(FalseObservations(id))
        IN  /\ r.display_type = decl.display_type
            /\ r.message = decl.message
            /\ r.location = decl.location
            /\ r.passed = ClaimedPassed(decl, id)
            /\ decl.assert_type \in {"always", "sometimes"} =>
                  /\ r.example_details = LastDetails(TrueObservations(id))
                  /\ r.counter_details = LastDetails(FalseObservations(id))
            /\ decl.assert_type = "reachability" =>
                  preferred \in {r.example_details, r.counter_details}

C7_Witness ==
    /\ Done
    /\ \E k \in DOMAIN Output :
         LET id == Output[k].id IN
         /\ Cardinality(TrueObservations(id)) = 2
         /\ First(TrueObservations(id)) < Last(Declarations(id))
         /\ Last(Declarations(id)) < Last(TrueObservations(id))
         /\ Output[k].example_details = Some(Instance(Last(TrueObservations(id))).details)
         /\ Output[k].example_details # Some(Instance(First(TrueObservations(id))).details)

\* How the run has ended and what it has written.
Ended == pc \in {"done", "error", "panic"}
Outcome ==
    [status |-> pc,
     records |-> IF file.some THEN {file.val[k] : k \in DOMAIN file.val} ELSE {}]

\* C8: SdkDescriptor, SetupStatus and NamedEvent records change nothing: the
\* groups built from the file are the groups built from the file without
\* them, and the run ends the same way with the same set of records.
WithoutIgnored == SelectSeq(contents, LAMBDA line : ~IsIgnored(line))

C8_IgnoredRecords ==
    /\ pc \in {"eval", "done", "panic"} =>
          grouped_assertions = group_asserts(parse_lines(WithoutIgnored).val)
    /\ Ended => Outcome = run(WithoutIgnored)

C8_Witness ==
    /\ Done
    /\ Len(contents) = 3
    /\ IsIgnored(contents[2])
    /\ Len(WithoutIgnored) = 2
    /\ Len(Output) = 1

\* C9: blank lines change nothing: they yield no record, and the run on the
\* file ends the same way and writes the same set of records as the run on
\* the file without its blank lines.
C9_BlankLines ==
    /\ pc \notin {"parse", "error"} => Len(parsed) = Len(NonBlank)
    /\ Ended => Outcome = run(NonBlank)

C9_Witness ==
    /\ Done
    /\ Len(contents) = 3
    /\ IsBlank(contents[2])
    /\ IsBlank(contents[3])
    /\ Len(Output) = 1

\* C10: when the instances of each id agree on assert_type and must_hit and
\* every id has a declaration, every permutation of the lines ends the same
\* way and gives every id the same passed and details fields that are null
\* for the same ids; only which details are retained depends on the order.
Agree ==
    \A id \in InputIds : \A i, j \in InstancesOf(id) :
        /\ Instance(i).assert_type = Instance(j).assert_type
        /\ Instance(i).must_hit = Instance(j).must_hit

Orderings ==
    [n \in 0..MaxLen |-> {f \in [1..n -> 1..n] : \A a, b \in 1..n : f[a] = f[b] => a = b}]

Permuted(f) == [i \in DOMAIN contents |-> contents[f[i]]]

\* What of a record does not depend on which observation is retained.
Verdict(r) ==
    [id |-> r.id, passed |-> r.passed,
     example_null |-> (r.example_details = None),
     counter_null |-> (r.counter_details = None)]

C10_OrderIndependent ==
    (Ended /\ Agree /\ AllDeclared) =>
        \A f \in Orderings[Len(contents)] :
            LET other == run(Permuted(f)) IN
            /\ other.status = Outcome.status
            /\ {Verdict(r) : r \in other.records} = {Verdict(r) : r \in Outcome.records}

C10_Witness ==
    /\ Done
    /\ Agree
    /\ Len(contents) = 3
    /\ \E id \in InputIds :
         /\ TrueObservations(id) # {}
         /\ FalseObservations(id) # {}
         /\ First(TrueObservations(id)) < Last(Declarations(id))
         /\ Last(Declarations(id)) < First(FalseObservations(id))

====
